---------------------------- MODULE Spec2Model ----------------------------
(***************************************************************************)
(* UAV strategic deconfliction, Method 2 (exact segment-to-segment         *)
(* distance).  The model follows src/Method 2/spatial_analyzer.py,         *)
(* conflict_detector.py, main_controller.py and data_loader.py.            *)
(*                                                                         *)
(* Numbers.  The program computes in floating point; the model computes    *)
(* in exact rational arithmetic over integer coordinates and integer       *)
(* second timestamps.  A rational is a record [n, d] with d > 0 in lowest  *)
(* terms; a point with rational coordinates is [num, den] (an integer      *)
(* 3-vector over a common positive denominator, in lowest terms).          *)
(* A distance is carried as its square (norm is math.sqrt, monotone on     *)
(* the non-negative reals, so every comparison of two distances is the     *)
(* comparison of their squares).  Every quantity compared with eps=1e-12   *)
(* is an integer here, so "x > eps" is "x > 0".                            *)
(***************************************************************************)
EXTENDS Integers, Sequences, FiniteSets, TLC

VARIABLES
    pc,             \* position of the run: which handler acts next
    drone_radius,   \* SpatialAnalyzer.drone_radius
    safety_time,    \* SpatialAnalyzer.safety_time
    safety_threshold, \* SpatialAnalyzer.safety_threshold
    args,           \* a solver call's arguments <<A1, A2, B1, B2>>
    results,        \* what closest_points_on_segments_in_3D returned
    classified,     \* what check_for_conflicts returned
    primary_path,   \* the primary drone: [waypoints]
    flight_data,    \* the other drones: [flights], each [drone_id, waypoints]
    drone_index,    \* detect_all_conflicts: position of the next drone in flights
    conflicts,      \* detect_all_conflicts: the list being built
    raised,         \* the exception that left the run, or "none"
    previous        \* the lists that earlier calls of detect_all_conflicts returned

config == <<drone_radius, safety_time, safety_threshold>>
pairVars == <<args, results, classified>>
inputVars == <<primary_path, flight_data>>
runVars == <<drone_index, conflicts, raised>>
vars == <<pc, config, pairVars, inputVars, runVars, previous>>

---------------------------------------------------------------------------
(* Bounds. *)
MaxX == 2            \* solver inputs: x in 0..MaxX
MaxY == 1            \* solver inputs: y in 0..MaxY
MaxDist == 4         \* classifier inputs: distance in 0..MaxDist
MaxTime == 2         \* classifier inputs: t1, t2 in 0..MaxTime
MaxRadius == 1       \* classifier inputs: drone_radius in 0..MaxRadius
MaxSafetyTime == 2   \* classifier inputs: safety_time in 0..MaxSafetyTime
MaxWaypoints == 3    \* waypoints of a path: 0..MaxWaypoints
MaxStart == 2        \* the primary path starts at second 0..MaxStart
SampleDen == 2       \* reference points of a segment: parameters k/SampleDen

---------------------------------------------------------------------------
(* Exact rational arithmetic standing for Python floats. *)

Abs(x) == IF x < 0 THEN -x ELSE x

RECURSIVE GCDNat(_, _)
GCDNat(m, n) == IF n = 0 THEN m ELSE GCDNat(n, m % n)
GCD(m, n) == GCDNat(Abs(m), Abs(n))

\* The value of n / d; d = 0 is Python's ZeroDivisionError.
ZeroDivisionError == [n |-> 0, d |-> 0]

Frac(n, d) ==
    LET g == GCD(n, d)
        sg == IF d < 0 THEN -1 ELSE 1
    IN  [n |-> sg * (n \div g), d |-> sg * (d \div g)]

Div(n, d) == IF d = 0 THEN ZeroDivisionError ELSE Frac(n, d)

IsError(q) == q.d = 0

Zero == [n |-> 0, d |-> 1]
One == [n |-> 1, d |-> 1]
FromInt(i) == [n |-> i, d |-> 1]

FracLess(p, q) == p.n * q.d < q.n * p.d
FracLeq(p, q) == p.n * q.d <= q.n * p.d
FracSub(p, q) == Frac(p.n * q.d - q.n * p.d, p.d * q.d)
FracAbs(p) == [n |-> Abs(p.n), d |-> p.d]

\* Vector helpers of the solver (integer 3-vectors).
sub(a, b) == <<a[1] - b[1], a[2] - b[2], a[3] - b[3]>>
dot(a, b) == a[1] * b[1] + a[2] * b[2] + a[3] * b[3]

\* Mutant of clamp: the parameter is not clamped.
clamp_NotClamped(x) == x

\* max(lo, min(x, hi)) with lo = 0.0, hi = 1.0
clamp(x) ==
    LET m == IF FracLess(x, One) THEN x ELSE One
    IN  IF FracLess(Zero, m) THEN m ELSE Zero

\* add(P, scale(u, s)): the point P + s*u for a rational s.
GCD4(v, d) == GCD(GCD(v[1], v[2]), GCD(v[3], d))
Point(v, d) ==
    LET g == GCD4(v, d)
    IN  [num |-> <<v[1] \div g, v[2] \div g, v[3] \div g>>, den |-> d \div g]
add_scale(P, u, s) ==
    Point(<<P[1] * s.d + u[1] * s.n, P[2] * s.d + u[2] * s.n,
            P[3] * s.d + u[3] * s.n>>, s.d)
IntPoint(P) == [num |-> P, den |-> 1]

\* norm(sub(X, Y)) squared, for two rational points.
norm2(X, Y) ==
    LET w == <<X.num[1] * Y.den - Y.num[1] * X.den,
               X.num[2] * Y.den - Y.num[2] * X.den,
               X.num[3] * Y.den - Y.num[3] * X.den>>
    IN  Frac(dot(w, w), (X.den * Y.den) * (X.den * Y.den))

\* "x > eps" for an integer x and eps = 1e-12.
GtEps(x) == x > 0

---------------------------------------------------------------------------
(* SpatialAnalyzer.closest_points_on_segments_in_3D *)

\* Mutant of time_calculations: the two parameters are exchanged.
time_calculations_Swapped(ta1, ta2, s, tb1, tb2, t) ==
    <<Frac((ta2 - ta1) * t.n + ta1 * t.d, t.d),
      Frac((tb2 - tb1) * s.n + tb1 * s.d, s.d)>>

\* t1 = (ta2 - ta1) * s + ta1, t2 = (tb2 - tb1) * t + tb1
time_calculations(ta1, ta2, s, tb1, tb2, t) ==
    <<Frac((ta2 - ta1) * s.n + ta1 * s.d, s.d),
      Frac((tb2 - tb1) * t.n + tb1 * t.d, t.d)>>

\* Mutant of point_to_seg_closest: the division is not guarded.
point_to_seg_closest_Unguarded(A, B, X) ==
    LET AB == sub(B, A)
        t == Div(dot(sub(X, A), AB), dot(AB, AB))
    IN  IF IsError(t) THEN <<IntPoint(A), t>>
        ELSE <<add_scale(A, AB, clamp(t)), clamp(t)>>

\* Project X onto segment A-B and clamp: <<point, parameter>>.
point_to_seg_closest(A, B, X) ==
    LET AB == sub(B, A)
        t == IF GtEps(dot(AB, AB)) THEN Div(dot(sub(X, A), AB), dot(AB, AB))
             ELSE Zero
    IN  IF IsError(t) THEN <<IntPoint(A), t>>
        ELSE <<add_scale(A, AB, clamp(t)), clamp(t)>>

\* The four endpoint candidates in the order the two loops visit them:
\* (closest_P, parameter on P, closest_Q, parameter on Q).
Candidates(P1, P2, Q1, Q2) ==
    LET q1 == point_to_seg_closest(Q1, Q2, P1)
        q2 == point_to_seg_closest(Q1, Q2, P2)
        p1 == point_to_seg_closest(P1, P2, Q1)
        p2 == point_to_seg_closest(P1, P2, Q2)
    IN  << [P |-> IntPoint(P1), s |-> Zero, Q |-> q1[1], t |-> q1[2]],
           [P |-> IntPoint(P2), s |-> One, Q |-> q2[1], t |-> q2[2]],
           [P |-> p1[1], s |-> p1[2], Q |-> IntPoint(Q1), t |-> Zero],
           [P |-> p2[1], s |-> p2[2], Q |-> IntPoint(Q2), t |-> One] >>

\* Mutant of Closer: a candidate as close as the best replaces it.
Closer_OrEqual(dPQ, best_dist) == FracLeq(dPQ, best_dist)

\* "if dPQ < best_dist": a candidate replaces the best only when strictly closer.
Closer(dPQ, best_dist) == FracLess(dPQ, best_dist)

\* The loops over the candidates: index of the best one after candidates
\* k, k+1, ... are visited (best = 0: best_dist is still inf); dists are the
\* candidates' distances.
RECURSIVE BestIndex(_, _, _)
BestIndex(dists, k, best) ==
    IF k > Len(dists) THEN best
    ELSE IF best = 0 \/ Closer(dists[k], dists[best])
         THEN BestIndex(dists, k + 1, k)
         ELSE BestIndex(dists, k + 1, best)

\* Mutant of LineParameters: on parallel lines the arbitrary s is 1.
LineParameters_ParallelEnd(a, b, c, d, e) ==
    LET D == b * b - a * c
    IN  IF GtEps(Abs(D))
        THEN <<Div(b * e - c * d, D), Div(a * e - b * d, D)>>
        ELSE <<One, IF GtEps(c) THEN Div(e, c) ELSE Zero>>

\* The unconstrained parameters <<s, t>> on the infinite lines.
LineParameters(a, b, c, d, e) ==
    LET D == b * b - a * c
    IN  IF GtEps(Abs(D))
        THEN <<Div(b * e - c * d, D), Div(a * e - b * d, D)>>
        ELSE <<Zero, IF GtEps(c) THEN Div(e, c) ELSE Zero>>

\* Mutant of Inside: the clamped line parameters are always the answer.
Inside_Always(x) == TRUE

\* Mutant of Inside: the line parameters never count as inside [0,1].
Inside_Never(x) == FALSE

Inside(x) == FracLeq(Zero, x) /\ FracLeq(x, One)

Raised == [raised |-> TRUE]

closest_points_on_segments_in_3D(A1, A2, B1, B2) ==
    LET P1 == <<A1[1], A1[2], A1[3]>>
        P2 == <<A2[1], A2[2], A2[3]>>
        Q1 == <<B1[1], B1[2], B1[3]>>
        Q2 == <<B2[1], B2[2], B2[3]>>
        tp1 == A1[4]
        tp2 == A2[4]
        tq1 == B1[4]
        tq2 == B2[4]
        u == sub(P2, P1)
        v == sub(Q2, Q1)
        w == sub(Q1, P1)
        st == LineParameters(dot(u, u), dot(u, v), dot(v, v), dot(u, w), dot(v, w))
        s == st[1]
        t == st[2]
    IN  IF IsError(s) \/ IsError(t) THEN Raised
        ELSE IF Inside(s) /\ Inside(t)
        THEN LET Pc == add_scale(P1, u, clamp(s))
                 Qc == add_scale(Q1, v, clamp(t))
                 tt == time_calculations(tp1, tp2, clamp(s), tq1, tq2, clamp(t))
             IN  [raised |-> FALSE, closest_P |-> Pc, closest_Q |-> Qc,
                  dist2 |-> norm2(Pc, Qc), t1 |-> tt[1], t2 |-> tt[2],
                  branch |-> "direct"]
        ELSE LET cands == Candidates(P1, P2, Q1, Q2)
                 dists == [k \in 1..4 |-> norm2(cands[k].P, cands[k].Q)]
                 best == cands[BestIndex(dists, 1, 0)]
                 tt == time_calculations(tp1, tp2, best.s, tq1, tq2, best.t)
             IN  IF \E k \in 1..4 : IsError(cands[k].s) \/ IsError(cands[k].t)
                 THEN Raised
                 ELSE [raised |-> FALSE, closest_P |-> best.P, closest_Q |-> best.Q,
                       dist2 |-> norm2(best.P, best.Q), t1 |-> tt[1], t2 |-> tt[2],
                       branch |-> "fallback"]

---------------------------------------------------------------------------
(* SpatialAnalyzer.check_for_conflicts *)

None == "None"

\* SpatialAnalyzer.__init__: self.safety_threshold = drone_radius*3
threshold_of(radius) == radius * 3

\* Mutant of BelowThreshold: the boundary counts as unsafe.
BelowThreshold_NonStrict(dist2, threshold) ==
    threshold >= 0 /\ dist2.n <= threshold * threshold * dist2.d

\* "min_dist_val < self.safety_threshold", the distance given by its square.
BelowThreshold(dist2, threshold) ==
    threshold > 0 /\ dist2.n < threshold * threshold * dist2.d

\* Mutant of WithinSafetyTime: a time difference equal to safety_time counts.
WithinSafetyTime_NonStrict(t1, t2) ==
    FracLeq(FracAbs(FracSub(t2, t1)), FromInt(safety_time))

\* "abs(t2 - t1) < self.safety_time"
WithinSafetyTime(t1, t2) == FracLess(FracAbs(FracSub(t2, t1)), FromInt(safety_time))

check_for_conflicts(r) ==
    LET count1 == IF BelowThreshold(r.dist2, safety_threshold) THEN 1 ELSE 0
        count == IF count1 = 1 /\ WithinSafetyTime(r.t1, r.t2) THEN count1 + 1
                 ELSE count1
    IN  IF count > 0
        THEN [level |-> count, closest_P |-> r.closest_P, closest_Q |-> r.closest_Q,
              t1 |-> r.t1, t2 |-> r.t2]
        ELSE [level |-> count, closest_P |-> None, closest_Q |-> None,
              t1 |-> None, t2 |-> None]

---------------------------------------------------------------------------
(* Waypoints, timestamps and SpatialAnalyzer.check_spatial_conflicts.      *)
(* A waypoint is [pos, timestamp, fields]: fields are the keys its dict    *)
(* holds; a timestamp is a whole number of seconds on the datetime axis;   *)
(* a record's timestamp is a number of microseconds on the same axis       *)
(* (datetime + timedelta keeps microseconds, isoformat prints them).       *)

AllFields == {"x", "y", "z", "timestamp"}
Micro == 1000000

SeqMin(ts) == CHOOSE m \in {ts[i] : i \in 1..Len(ts)} :
                 \A i \in 1..Len(ts) : m <= ts[i]

\* (dt - reference_time).total_seconds()
convert_timestamp_to_seconds(timestamp, reference_time) == timestamp - reference_time

\* timedelta(seconds=t): t rounded to the nearest microsecond, ties to even.
RoundHalfEven(n, d) ==
    LET q == n \div d
        r == n % d
    IN  IF 2 * r < d THEN q
        ELSE IF 2 * r > d THEN q + 1
        ELSE IF q % 2 = 0 THEN q ELSE q + 1

\* (reference_time + timedelta(seconds=t)).isoformat()
to_timestamp(reference_time, t) ==
    reference_time * Micro + RoundHalfEven(t.n * Micro, t.d)

convert_waypoints_to_segments(waypoints, reference_time) ==
    [i \in 1..(IF Len(waypoints) = 0 THEN 0 ELSE Len(waypoints) - 1) |->
        LET wp1 == waypoints[i]
            wp2 == waypoints[i + 1]
        IN  << <<wp1.pos[1], wp1.pos[2], wp1.pos[3],
                 convert_timestamp_to_seconds(wp1.timestamp, reference_time)>>,
               <<wp2.pos[1], wp2.pos[2], wp2.pos[3],
                 convert_timestamp_to_seconds(wp2.timestamp, reference_time)>> >>]

\* The dict appended for a pair of level > 0 (segment indices count from 0).
conflict_data(other_drone_id, res, chk, reference_time, i, j) ==
    [with_drone |-> other_drone_id,
     min_distance |-> res.dist2,
     location_primary |-> chk.closest_P,
     location_other |-> chk.closest_Q,
     timestamp_primary |-> to_timestamp(reference_time, chk.t1),
     timestamp_other |-> to_timestamp(reference_time, chk.t2),
     time_difference |-> FracAbs(FracSub(chk.t2, chk.t1)),
     spatial_conflict |-> TRUE,
     temporal_conflict |-> (chk.level # 1),
     conflict_type |-> IF chk.level = 1 THEN "SPATIAL" ELSE "SPATIOTEMPORAL",
     primary_segment |-> i,
     other_segment |-> j]

\* "for i ... for j ...": the pairs (i, j) in the order the two loops visit
\* them (n counts the visits from 1, i and j count from 0 as enumerate does).
VisitI(n, n_other) == (n - 1) \div n_other
\* Mutant of VisitJ: the inner loop runs over the other segments backwards.
VisitJ_Descending(n, n_other) == n_other - 1 - ((n - 1) % n_other)
VisitJ(n, n_other) == (n - 1) % n_other

\* What the loop body computes on its n-th visit.  (Here and below a
\* quantifier over a one-element set, x \in {e}, only names the value of e.)
Visit(primary_segments, other_segments, n) ==
    LET i == VisitI(n, Len(other_segments))
        j == VisitJ(n, Len(other_segments))
    IN  CHOOSE visit \in
            {[i |-> i, j |-> j, res |-> res, chk |-> check_for_conflicts(res)] :
                res \in {closest_points_on_segments_in_3D(p1, p2, o1, o2) :
                            p1 \in {primary_segments[i + 1][1]},
                            p2 \in {primary_segments[i + 1][2]},
                            o1 \in {other_segments[j + 1][1]},
                            o2 \in {other_segments[j + 1][2]}}} : TRUE

\* Mutant of Appends: only a spatiotemporal pair is recorded.
Appends_OnlyLevel2(visit) == visit.chk.level > 1

\* Mutant of Appends: a pair that an earlier call reported is skipped.
Appends_Remembering(visit) ==
    /\ visit.chk.level > 0
    /\ \A m \in 1..Len(previous) : \A n \in 1..Len(previous[m]) :
          ~(/\ previous[m][n].primary_segment = visit.i
            /\ previous[m][n].other_segment = visit.j)

\* Mutant of Appends: a pair of segment indices already recorded, for this or
\* an earlier drone of the call, is skipped.
Appends_AcrossDrones(visit) ==
    /\ visit.chk.level > 0
    /\ \A n \in 1..Len(conflicts) :
          ~(/\ conflicts[n].primary_segment = visit.i
            /\ conflicts[n].other_segment = visit.j)

\* "if conflict_level > 0: ... conflicts.append(conflict_data)"
Appends(visit) == visit.chk.level > 0

SegmentLoop(primary_segments, other_segments, other_drone_id, reference_time) ==
    CHOOSE appended \in
        {[n \in 1..Len(kept) |->
             conflict_data(other_drone_id, kept[n].res, kept[n].chk,
                           reference_time, kept[n].i, kept[n].j)] :
            kept \in {SelectSeq(
                [n \in 1..(Len(primary_segments) * Len(other_segments)) |->
                    Visit(primary_segments, other_segments, n)], Appends)}} : TRUE

\* A path whose conversion to segments reads a coordinate some waypoint lacks.
LacksCoordinate(waypoints) ==
    /\ Len(waypoints) >= 2
    /\ \E i \in 1..Len(waypoints) : ~({"x", "y", "z"} \subseteq waypoints[i].fields)

\* "for wp in primary_waypoints + other_waypoints: all_timestamps.append(...)"
all_timestamps(primary_waypoints, other_waypoints) ==
    [i \in 1..Len(primary_waypoints \o other_waypoints) |->
        (primary_waypoints \o other_waypoints)[i].timestamp]

check_spatial_conflicts(primary_waypoints, other_waypoints, other_drone_id) ==
    LET all == primary_waypoints \o other_waypoints
    IN  IF \E i \in 1..Len(all) : "timestamp" \notin all[i].fields
        THEN [raised |-> "KeyError", conflicts |-> <<>>]
        ELSE IF all_timestamps(primary_waypoints, other_waypoints) = <<>>
        THEN [raised |-> "ValueError", conflicts |-> <<>>]
        ELSE IF LacksCoordinate(primary_waypoints) \/ LacksCoordinate(other_waypoints)
        THEN [raised |-> "KeyError", conflicts |-> <<>>]
        ELSE CHOOSE returned \in
            {[raised |-> "none",
              conflicts |-> SegmentLoop(
                  convert_waypoints_to_segments(primary_waypoints, reference_time),
                  convert_waypoints_to_segments(other_waypoints, reference_time),
                  other_drone_id, reference_time)] :
                reference_time \in
                    {SeqMin(all_timestamps(primary_waypoints, other_waypoints))}} : TRUE

\* DroneDataLoader.validate_waypoint_data
validate_waypoint_data(waypoints) ==
    \A i \in 1..Len(waypoints) : AllFields \subseteq waypoints[i].fields

---------------------------------------------------------------------------
(* The run: DroneFlightAnalyzer.analyze_flight_data validates the primary  *)
(* path and calls ConflictDetector.detect_all_conflicts, whose loop takes  *)
(* one drone of flight_data['flights'] per step.                           *)

\* analyze_flight_data up to the call of detect_all_conflicts.
Validate ==
    /\ pc = "analyze"
    /\ pc' = IF validate_waypoint_data(primary_path.waypoints) THEN "detect"
             ELSE "invalid"
    /\ UNCHANGED <<config, pairVars, inputVars, runVars, previous>>

\* Mutant of CheckDrone: the other drone's waypoints are appended to the
\* primary path's list in place ("primary_waypoints += other_waypoints").
CheckDrone_Extending ==
    /\ pc = "detect"
    /\ drone_index <= Len(flight_data.flights)
    /\ \E spatial_conflicts \in
            {check_spatial_conflicts(primary_path.waypoints,
                                     flight_data.flights[drone_index].waypoints,
                                     flight_data.flights[drone_index].drone_id)} :
           IF spatial_conflicts.raised # "none"
           THEN /\ raised' = spatial_conflicts.raised
                /\ conflicts' = <<>>
                /\ pc' = "raised"
                /\ UNCHANGED drone_index
           ELSE /\ conflicts' = conflicts \o spatial_conflicts.conflicts
                /\ drone_index' = drone_index + 1
                /\ UNCHANGED <<pc, raised>>
    /\ primary_path' =
          [waypoints |-> primary_path.waypoints
                            \o flight_data.flights[drone_index].waypoints]
    /\ UNCHANGED <<config, pairVars, flight_data, previous>>

\* One turn of "for drone in flight_data['flights']".
CheckDrone ==
    /\ pc = "detect"
    /\ drone_index <= Len(flight_data.flights)
    /\ \E spatial_conflicts \in
            {check_spatial_conflicts(primary_path.waypoints,
                                     flight_data.flights[drone_index].waypoints,
                                     flight_data.flights[drone_index].drone_id)} :
           IF spatial_conflicts.raised # "none"
           THEN /\ raised' = spatial_conflicts.raised
                /\ conflicts' = <<>>
                /\ pc' = "raised"
                /\ UNCHANGED drone_index
           ELSE /\ conflicts' = conflicts \o spatial_conflicts.conflicts
                /\ drone_index' = drone_index + 1
                /\ UNCHANGED <<pc, raised>>
    /\ UNCHANGED <<config, pairVars, inputVars, previous>>

\* "return conflicts"
Return ==
    /\ pc = "detect"
    /\ drone_index > Len(flight_data.flights)
    /\ pc' = "returned"
    /\ UNCHANGED <<config, pairVars, inputVars, runVars, previous>>

\* The caller keeps the returned list and calls detect_all_conflicts a second
\* time, on the same detector with the same arguments:
\* "primary_waypoints = primary_path['waypoints']; conflicts = []".
Again ==
    /\ pc = "returned"
    /\ previous = <<>>
    /\ previous' = <<conflicts>>
    /\ conflicts' = <<>>
    /\ drone_index' = 1
    /\ pc' = "detect"
    /\ UNCHANGED <<config, pairVars, inputVars, raised>>

Next == Validate \/ CheckDrone \/ Return \/ Again

---------------------------------------------------------------------------
(* Inputs of the run.  Waypoints lie on two sites three metres apart, a    *)
(* path's waypoints are one second apart.                                  *)

Sites == {<<0, 0, 0>>, <<1, 2, 2>>}
Fleet == <<"D1", "D2">>

SeqsUpTo(S, n) == UNION {[1..m -> S] : m \in 0..n}

Path(sites, start) ==
    [i \in 1..Len(sites) |->
        [pos |-> sites[i], timestamp |-> start + (i - 1), fields |-> AllFields]]

Flights(paths) ==
    [k \in 1..Len(paths) |-> [drone_id |-> Fleet[k], waypoints |-> paths[k]]]

OtherPaths == {Path(sites, 1) : sites \in SeqsUpTo(Sites, MaxWaypoints)}

NoResults == [raised |-> FALSE, branch |-> "none"]
NoPair ==
    /\ args = <<>>
    /\ results = NoResults
    /\ classified = None
NoRun ==
    /\ primary_path = [waypoints |-> <<>>]
    /\ flight_data = [flights |-> <<>>]
    /\ drone_index = 1
    /\ conflicts = <<>>
    /\ raised = "none"
    /\ previous = <<>>

Init ==
    /\ pc = "analyze"
    /\ drone_radius = 1
    /\ safety_time = 1
    /\ safety_threshold = threshold_of(drone_radius)
    /\ NoPair
    /\ \E sites \in SeqsUpTo(Sites, MaxWaypoints), start \in 0..MaxStart :
          primary_path = [waypoints |-> Path(sites, start)]
    /\ \E paths \in SeqsUpTo(OtherPaths, Len(Fleet)) :
          flight_data = [flights |-> Flights(paths)]
    /\ drone_index = 1
    /\ conflicts = <<>>
    /\ raised = "none"
    /\ previous = <<>>

Spec == Init /\ [][Next]_vars

---------------------------------------------------------------------------
(* Inputs that break the input contract: paths as above, of at most two     *)
(* waypoints, with at most one defect: a waypoint that lacks a field, or a  *)
(* waypoint whose timestamp repeats the one before it.                      *)

DefectKinds == AllFields \cup {"order"}

ApplyDefect(waypoints, i, kind) ==
    [waypoints EXCEPT ![i] =
        IF kind = "order" THEN [@ EXCEPT !.timestamp = waypoints[i - 1].timestamp]
        ELSE [@ EXCEPT !.fields = @ \ {kind}]]

\* paths[1] is the primary path, the others follow; defect = <<path, waypoint, kind>>.
Defects(paths) ==
    {<<0, 0, "none">>} \cup
    {d \in (1..Len(paths)) \X (1..2) \X DefectKinds :
        /\ d[2] <= Len(paths[d[1]])
        /\ (d[3] = "order" => d[2] >= 2)}

WithDefect(paths, d) ==
    IF d[3] = "none" THEN paths
    ELSE [paths EXCEPT ![d[1]] = ApplyDefect(@, d[2], d[3])]

IntakePaths == {Path(sites, 0) : sites \in SeqsUpTo(Sites, 2)}

IntakeInit ==
    /\ pc = "analyze"
    /\ drone_radius = 1
    /\ safety_time = 1
    /\ safety_threshold = threshold_of(drone_radius)
    /\ NoPair
    /\ \E primary \in IntakePaths, others \in SeqsUpTo(IntakePaths, Len(Fleet)) :
          \E d \in Defects(<<primary>> \o others) :
             /\ primary_path = [waypoints |-> WithDefect(<<primary>> \o others, d)[1]]
             /\ flight_data =
                   [flights |-> Flights(Tail(WithDefect(<<primary>> \o others, d)))]
    /\ drone_index = 1
    /\ conflicts = <<>>
    /\ raised = "none"
    /\ previous = <<>>

IntakeSpec == IntakeInit /\ [][Next]_vars

---------------------------------------------------------------------------
(* The scenarios of the specification: drone_radius 5 (threshold 15),       *)
(* safety_time 2; the primary path and at most one other path are single    *)
(* straight segments flown in 10 seconds between points of a plane whose    *)
(* ordinates are 0, 15 (the threshold), 20 and 50 metres; the other drone   *)
(* starts with the primary one or 10 seconds later.                         *)

ScenarioSites == {0, 20} \X {0, 15, 20, 50} \X {0}

ScenarioPath(p1, p2, start) ==
    << [pos |-> p1, timestamp |-> start, fields |-> AllFields],
       [pos |-> p2, timestamp |-> start + 10, fields |-> AllFields] >>

ScenarioOthers ==
    {ScenarioPath(q1, q2, start) :
        q1 \in ScenarioSites, q2 \in ScenarioSites, start \in {0, 10}}

ScenarioInit ==
    /\ pc = "analyze"
    /\ drone_radius = 5
    /\ safety_time = 2
    /\ safety_threshold = threshold_of(drone_radius)
    /\ NoPair
    /\ \E p1 \in ScenarioSites, p2 \in ScenarioSites :
          primary_path = [waypoints |-> ScenarioPath(p1, p2, 0)]
    /\ \E paths \in SeqsUpTo(ScenarioOthers, 1) :
          flight_data = [flights |-> Flights(paths)]
    /\ drone_index = 1
    /\ conflicts = <<>>
    /\ raised = "none"
    /\ previous = <<>>

ScenarioSpec == ScenarioInit /\ [][Next]_vars

---------------------------------------------------------------------------
(* The sampling strategy: src/Method 1/spatial_analyzer.py.  Timestamps are  *)
(* whole seconds; a sample is [pos, time], pos a rational point.             *)

\* SpatialAnalyzer.interpolate_position, for t1 <= t <= t2.
interpolate_position(wp1, wp2, t) ==
    LET total == wp2.timestamp - wp1.timestamp
        alpha == IF total > 0 THEN Div(t - wp1.timestamp, total) ELSE Zero
    IN  add_scale(wp1.pos, sub(wp2.pos, wp1.pos), alpha)

\* One segment's samples: "for s in range(0, int(segment_duration) + 1, 1)";
\* range is empty when the duration is negative.
SegmentSamples(wp1, wp2) ==
    [n \in 1..(IF wp2.timestamp >= wp1.timestamp
               THEN wp2.timestamp - wp1.timestamp + 1 ELSE 0) |->
        [pos |-> interpolate_position(wp1, wp2, wp1.timestamp + n - 1),
         time |-> wp1.timestamp + n - 1]]

\* SpatialAnalyzer.sample_path_positions: the samples of segments i, i+1, ...
RECURSIVE sample_path_positions(_, _)
sample_path_positions(waypoints, i) ==
    IF i >= Len(waypoints) THEN <<>>
    ELSE SegmentSamples(waypoints[i], waypoints[i + 1])
            \o sample_path_positions(waypoints, i + 1)

\* Mutant of TemporallyIrrelevant: any gap between the two windows counts.
TemporallyIrrelevant_AnyGap(primary_waypoints, other_waypoints) ==
    LET primary_start == primary_waypoints[1].timestamp
        primary_end == primary_waypoints[Len(primary_waypoints)].timestamp
        other_start == other_waypoints[1].timestamp
        other_end == other_waypoints[Len(other_waypoints)].timestamp
    IN  IF primary_end < other_start THEN other_start - primary_end > 0
        ELSE IF other_end < primary_start THEN primary_start - other_end > 0
        ELSE FALSE

\* "Check temporal relevance": the two flight-time windows are separated by a
\* gap of more than max_time_gap = 5 seconds, and [] is returned.
TemporallyIrrelevant(primary_waypoints, other_waypoints) ==
    LET primary_start == primary_waypoints[1].timestamp
        primary_end == primary_waypoints[Len(primary_waypoints)].timestamp
        other_start == other_waypoints[1].timestamp
        other_end == other_waypoints[Len(other_waypoints)].timestamp
    IN  IF primary_end < other_start THEN other_start - primary_end > 5
        ELSE IF other_end < primary_start THEN primary_start - other_end > 5
        ELSE FALSE

\* The inner loop: index of the closest other sample within 1 second of the
\* primary sample after samples k, k+1, ... are visited (0: none found yet).
RECURSIVE ClosestOther(_, _, _, _)
ClosestOther(primary_sample, other_samples, k, best) ==
    IF k > Len(other_samples) THEN best
    ELSE IF /\ Abs(primary_sample.time - other_samples[k].time) <= 1
            /\ \/ best = 0
               \/ FracLess(norm2(primary_sample.pos, other_samples[k].pos),
                           norm2(primary_sample.pos, other_samples[best].pos))
         THEN ClosestOther(primary_sample, other_samples, k + 1, k)
         ELSE ClosestOther(primary_sample, other_samples, k + 1, best)

\* "closest_other_data and closest_distance < self.drone_radius"
IsSampledConflict(primary_sample, other_samples, best) ==
    /\ best # 0
    /\ drone_radius > 0
    /\ FracLess(norm2(primary_sample.pos, other_samples[best].pos),
                FromInt(drone_radius * drone_radius))

sampled_conflict(primary_sample, other_sample, other_drone_id) ==
    [with_drone |-> other_drone_id,
     min_distance |-> norm2(primary_sample.pos, other_sample.pos),
     location_primary |-> primary_sample.pos,
     location_other |-> other_sample.pos,
     timestamp_primary |-> primary_sample.time * Micro,
     timestamp_other |-> other_sample.time * Micro,
     time_difference |-> FromInt(Abs(primary_sample.time - other_sample.time)),
     spatial_conflict |-> TRUE,
     temporal_conflict |-> FALSE,
     conflict_type |-> "SPATIAL"]

\* Mutant of CooledDown: conflict_interval of 1 second.
CooledDown_OneSecond(primary_time, last) ==
    last = <<>> \/ primary_time - last[1] >= 1

\* "last_conflict_time is None or (primary_time - last_conflict_time)
\* .total_seconds() >= conflict_interval", conflict_interval = 2;
\* last is <<>> (None) or <<last_conflict_time>>.
CooledDown(primary_time, last) ==
    last = <<>> \/ primary_time - last[1] >= 2

\* The outer loop from primary sample k on; last is <<>> or <<last_conflict_time>>
\* (a conflict is reported when none was in the last conflict_interval = 2 s).
RECURSIVE SampleLoop(_, _, _, _, _)
SampleLoop(primary_samples, other_samples, other_drone_id, k, last) ==
    IF k > Len(primary_samples) THEN <<>>
    ELSE LET best == ClosestOther(primary_samples[k], other_samples, 1, 0)
         IN  IF /\ IsSampledConflict(primary_samples[k], other_samples, best)
                /\ CooledDown(primary_samples[k].time, last)
             THEN <<sampled_conflict(primary_samples[k], other_samples[best],
                                     other_drone_id)>>
                     \o SampleLoop(primary_samples, other_samples, other_drone_id,
                                   k + 1, <<primary_samples[k].time>>)
             ELSE SampleLoop(primary_samples, other_samples, other_drone_id,
                             k + 1, last)

\* check_spatial_conflicts of Method 1 from "Sample positions" on.
SampledConflicts(primary_waypoints, other_waypoints, other_drone_id) ==
    SampleLoop(sample_path_positions(primary_waypoints, 1),
               sample_path_positions(other_waypoints, 1), other_drone_id, 1, <<>>)

\* SpatialAnalyzer.check_spatial_conflicts of Method 1; waypoints[0] of an empty
\* list raises IndexError.
sampling_check_spatial_conflicts(primary_waypoints, other_waypoints, other_drone_id) ==
    IF primary_waypoints = <<>> \/ other_waypoints = <<>>
    THEN [raised |-> "IndexError", conflicts |-> <<>>]
    ELSE IF TemporallyIrrelevant(primary_waypoints, other_waypoints)
    THEN [raised |-> "none", conflicts |-> <<>>]
    ELSE [raised |-> "none",
          conflicts |-> SampledConflicts(primary_waypoints, other_waypoints,
                                         other_drone_id)]

\* One call of Method 1's check_spatial_conflicts on the primary path and the
\* first drone.
CheckSampled ==
    /\ pc = "sample"
    /\ \E spatial_conflicts \in
            {sampling_check_spatial_conflicts(primary_path.waypoints,
                                              flight_data.flights[1].waypoints,
                                              flight_data.flights[1].drone_id)} :
          /\ conflicts' = spatial_conflicts.conflicts
          /\ raised' = spatial_conflicts.raised
    /\ pc' = "sampled"
    /\ UNCHANGED <<config, pairVars, inputVars, drone_index, previous>>

\* Inputs: waypoints on the two sites, two seconds apart (one sample between
\* two waypoints); drone_radius 2; the paths start so that their time windows
\* overlap, or lie 1 to 12 seconds apart.
TimedPath(sites, start) ==
    [i \in 1..Len(sites) |->
        [pos |-> sites[i], timestamp |-> start + 2 * (i - 1), fields |-> AllFields]]

SamplingInit ==
    /\ pc = "sample"
    /\ drone_radius = 2
    /\ safety_time = 1
    /\ safety_threshold = threshold_of(drone_radius)
    /\ NoPair
    /\ \E sites \in SeqsUpTo(Sites, MaxWaypoints), start \in {0, 5, 12} :
          primary_path = [waypoints |-> TimedPath(sites, start)]
    /\ \E sites \in SeqsUpTo(Sites, MaxWaypoints), start \in {0, 5, 10} :
          flight_data = [flights |-> Flights(<<TimedPath(sites, start)>>)]
    /\ drone_index = 1
    /\ conflicts = <<>>
    /\ raised = "none"
    /\ previous = <<>>

SamplingNext == CheckSampled

SamplingSpec == SamplingInit /\ [][SamplingNext]_vars

---------------------------------------------------------------------------
(* The solver applied to one pair of segments drawn from a grid. *)

Altitudes == {0, 1}
Grid == (0..MaxX) \X (0..MaxY) \X Altitudes
EndPoint(p, t) == <<p[1], p[2], p[3], t>>

SolverInit ==
    /\ pc = "solve"
    /\ drone_radius = 1
    /\ safety_time = 1
    /\ safety_threshold = threshold_of(drone_radius)
    /\ \E p1 \in Grid, p2 \in Grid, q1 \in Grid, q2 \in Grid :
          args = <<EndPoint(p1, 0), EndPoint(p2, 2), EndPoint(q1, 1), EndPoint(q2, 4)>>
    /\ results = NoResults
    /\ classified = None
    /\ NoRun

Solve ==
    /\ pc = "solve"
    /\ results' = closest_points_on_segments_in_3D(args[1], args[2], args[3], args[4])
    /\ pc' = "solved"
    /\ UNCHANGED <<config, args, classified, inputVars, runVars, previous>>

SolverNext == Solve

SolverSpec == SolverInit /\ [][SolverNext]_vars

---------------------------------------------------------------------------
(* The classifier applied to one result drawn from a bounded set. *)

ClassifierInit ==
    /\ pc = "classify"
    /\ drone_radius \in 0..MaxRadius
    /\ safety_time \in 0..MaxSafetyTime
    /\ safety_threshold = threshold_of(drone_radius)
    /\ args = <<>>
    /\ \E dist \in 0..MaxDist, t1 \in 0..MaxTime, t2 \in 0..MaxTime :
          results = [raised |-> FALSE,
                     closest_P |-> IntPoint(<<0, 0, 0>>),
                     closest_Q |-> IntPoint(<<dist, 0, 0>>),
                     dist2 |-> FromInt(dist * dist),
                     t1 |-> FromInt(t1), t2 |-> FromInt(t2), branch |-> "direct"]
    /\ classified = None
    /\ NoRun

Classify ==
    /\ pc \in {"classify", "solved"}
    /\ classified' = check_for_conflicts(results)
    /\ pc' = "classified"
    /\ UNCHANGED <<config, args, results, inputVars, runVars, previous>>

ClassifierNext == Classify

ClassifierSpec == ClassifierInit /\ [][ClassifierNext]_vars

---------------------------------------------------------------------------
(* The solver and then the classifier applied to a segment and a copy of it: *)
(* the same or the reversed segment, over the same or a later time range.    *)

TimeRanges == {r \in (0..MaxTime) \X (0..MaxTime) : r[1] < r[2]}

PairInit ==
    /\ pc = "solve"
    /\ drone_radius \in {0, MaxRadius}
    /\ safety_time \in {0, MaxSafetyTime}
    /\ safety_threshold = threshold_of(drone_radius)
    /\ \E p1 \in Grid, p2 \in Grid, r \in TimeRanges,
          reversed \in BOOLEAN, delay \in {0, 1} :
          args = <<EndPoint(p1, r[1]), EndPoint(p2, r[2]),
                   EndPoint(IF reversed THEN p2 ELSE p1, r[1] + delay),
                   EndPoint(IF reversed THEN p1 ELSE p2, r[2] + delay)>>
    /\ results = NoResults
    /\ classified = None
    /\ NoRun

PairNext == Solve \/ Classify

PairSpec == PairInit /\ [][PairNext]_vars

---------------------------------------------------------------------------
(* Properties of the solver (SolverSpec). *)

P1of(a) == <<a[1][1], a[1][2], a[1][3]>>
P2of(a) == <<a[2][1], a[2][2], a[2][3]>>
Q1of(a) == <<a[3][1], a[3][2], a[3][3]>>
Q2of(a) == <<a[4][1], a[4][2], a[4][3]>>

\* The point A + (k/SampleDen)(B - A) of segment A-B.
SamplePoint(A, B, k) == add_scale(A, sub(B, A), Frac(k, SampleDen))

cross(a, b) == <<a[2] * b[3] - a[3] * b[2],
                 a[3] * b[1] - a[1] * b[3],
                 a[1] * b[2] - a[2] * b[1]>>

\* X = A + p(B - A) for some p in [0,1].
OnSegment(X, A, B) ==
    LET AB == sub(B, A)
        AX == <<X.num[1] - A[1] * X.den, X.num[2] - A[2] * X.den,
                X.num[3] - A[3] * X.den>>
    IN  /\ cross(AX, AB) = <<0, 0, 0>>
        /\ 0 <= dot(AX, AB)
        /\ dot(AX, AB) <= dot(AB, AB) * X.den
        /\ (AB = <<0, 0, 0>> => AX = <<0, 0, 0>>)

\* C1: the returned distance is the minimum distance of the two segments: no
\* point of segment P and point of segment Q (here: the points of parameters
\* k/SampleDen, end points included) are closer than the returned distance.
C1_TrueMinimum ==
    pc = "solved" =>
        /\ results.raised = FALSE
        /\ \A k \in 0..SampleDen, m \in 0..SampleDen :
               ~FracLess(norm2(SamplePoint(P1of(args), P2of(args), k),
                               SamplePoint(Q1of(args), Q2of(args), m)),
                         results.dist2)

\* C3: both returned points lie on their own finite segments.
C3_Containment ==
    pc = "solved" =>
        /\ results.raised = FALSE
        /\ OnSegment(results.closest_P, P1of(args), P2of(args))
        /\ OnSegment(results.closest_Q, Q1of(args), Q2of(args))

\* C3 witness: the end-point fallback returned a point strictly inside segment Q,
\* the projection of an end point of P.
C3_Witness ==
    /\ pc = "solved"
    /\ results.raised = FALSE
    /\ results.branch = "fallback"
    /\ results.closest_Q.den > 1
    /\ OnSegment(results.closest_Q, Q1of(args), Q2of(args))

\* C4: the solver returns the same distance for (A, B) and for (B, A).
C4_Symmetry ==
    pc = "solved" =>
        results.dist2 =
            closest_points_on_segments_in_3D(args[3], args[4], args[1], args[2]).dist2

\* C10: the solver returns a result (two points, a distance, two times) for every
\* pair of segments, zero-length and parallel ones included; no division by zero.
C10_Total ==
    pc = "solved" =>
        /\ results.raised = FALSE
        /\ results.branch \in {"direct", "fallback"}
        /\ results.dist2.d > 0 /\ results.t1.d > 0 /\ results.t2.d > 0
        /\ results.closest_P.den > 0 /\ results.closest_Q.den > 0

\* C10 witness: segment P has zero length and the solver went through the
\* end-point fallback, whose projection onto P meets the guarded division.
C10_Witness ==
    /\ pc = "solved"
    /\ P1of(args) = P2of(args)
    /\ Q1of(args) # Q2of(args)
    /\ results.raised = FALSE
    /\ results.branch = "fallback"

---------------------------------------------------------------------------
(* Properties of the classifier (ClassifierSpec). *)

\* C5: level 0 when distance >= 3 x drone_radius; level 1 when the distance is
\* below it and |t1 - t2| >= safety_time; level 2 when both are below.  Both
\* comparisons are strict.  (In ClassifierSpec the distance is the whole number
\* closest_Q.num[1] and the times are whole numbers.)
C5_Levels ==
    pc = "classified" =>
        LET dist == results.closest_Q.num[1]
            dt == Abs(results.t1.n - results.t2.n)
        IN  classified.level =
                IF dist >= 3 * drone_radius THEN 0
                ELSE IF dt >= safety_time THEN 1
                ELSE 2

\* C5 witness: a distance just below the threshold with a time difference equal
\* to safety_time, classified SPATIAL.
C5_Witness ==
    /\ pc = "classified"
    /\ results.closest_Q.num[1] + 1 = 3 * drone_radius
    /\ safety_time > 0
    /\ Abs(results.t1.n - results.t2.n) = safety_time
    /\ classified.level = 1

\* A distance equal to the threshold is classified as no conflict.
DistanceBoundaryReached ==
    /\ pc = "classified"
    /\ drone_radius > 0
    /\ results.closest_Q.num[1] = 3 * drone_radius
    /\ classified.level = 0

---------------------------------------------------------------------------
(* Properties of the run (Spec, IntakeSpec). *)

NumSegments(waypoints) == IF Len(waypoints) = 0 THEN 0 ELSE Len(waypoints) - 1
PrimaryWaypoints == primary_path.waypoints
OtherWaypoints(k) == flight_data.flights[k].waypoints
Drones == 1..Len(flight_data.flights)
Position(id) == CHOOSE k \in 1..Len(Fleet) : Fleet[k] = id
RecordsOf(k) == {n \in 1..Len(conflicts) : conflicts[n].with_drone = Fleet[k]}

\* Some point of segment A-B and some point of segment C-D (parameters
\* k/SampleDen) are strictly closer than the threshold.
ComeWithin(A, B, C, D, threshold) ==
    \E k \in 0..SampleDen, m \in 0..SampleDen :
        BelowThreshold(norm2(SamplePoint(A, B, k), SamplePoint(C, D, m)), threshold)

\* C2: if a segment of the primary path and a segment of another drone's path
\* come closer than safety_threshold, the returned list holds a record with that
\* drone's id.
C2_NoConflictMissed ==
    pc = "returned" =>
        \A k \in Drones :
            (\E i \in 1..NumSegments(PrimaryWaypoints),
                j \in 1..NumSegments(OtherWaypoints(k)) :
                ComeWithin(PrimaryWaypoints[i].pos, PrimaryWaypoints[i + 1].pos,
                           OtherWaypoints(k)[j].pos, OtherWaypoints(k)[j + 1].pos,
                           safety_threshold))
            => RecordsOf(k) # {}

\* The level of the pair (primary segment i, segment j of drone k), counted from 0.
PairLevel(k, i, j) ==
    LET ref == SeqMin(all_timestamps(PrimaryWaypoints, OtherWaypoints(k)))
        ps == convert_waypoints_to_segments(PrimaryWaypoints, ref)
        os == convert_waypoints_to_segments(OtherWaypoints(k), ref)
    IN  check_for_conflicts(closest_points_on_segments_in_3D(
            ps[i + 1][1], ps[i + 1][2], os[j + 1][1], os[j + 1][2])).level

RecordsOfPair(k, i, j) ==
    {n \in RecordsOf(k) : /\ conflicts[n].primary_segment = i
                          /\ conflicts[n].other_segment = j}

\* C6: for every drone already compared, the list holds exactly one record for
\* each pair (i, j) of non-zero level, none for a pair of level 0, and no other
\* record.
C6_OneRecordPerPair ==
    pc \in {"detect", "returned"} =>
        /\ \A k \in 1..(drone_index - 1) :
              \A i \in 0..(NumSegments(PrimaryWaypoints) - 1),
                 j \in 0..(NumSegments(OtherWaypoints(k)) - 1) :
                 Cardinality(RecordsOfPair(k, i, j)) =
                     IF PairLevel(k, i, j) > 0 THEN 1 ELSE 0
        /\ \A n \in 1..Len(conflicts) :
              \E k \in 1..(drone_index - 1) :
                 /\ conflicts[n].with_drone = Fleet[k]
                 /\ conflicts[n].primary_segment \in 0..(NumSegments(PrimaryWaypoints) - 1)
                 /\ conflicts[n].other_segment \in 0..(NumSegments(OtherWaypoints(k)) - 1)

\* C6 witness: a returned run in which one drone, with two segments against two
\* primary segments, has a pair of level 0 and pairs of level 1 and 2.
C6_Witness ==
    /\ pc = "returned"
    /\ NumSegments(PrimaryWaypoints) = 2
    /\ \E k \in Drones :
          /\ NumSegments(OtherWaypoints(k)) = 2
          /\ \E i \in 0..1, j \in 0..1 : PairLevel(k, i, j) = 0
          /\ \E n \in RecordsOf(k) : conflicts[n].conflict_type = "SPATIAL"
          /\ \E n \in RecordsOf(k) : conflicts[n].conflict_type = "SPATIOTEMPORAL"

\* (drone position, primary_segment, other_segment) of record a is before b's.
KeyBefore(a, b) ==
    \/ Position(a.with_drone) < Position(b.with_drone)
    \/ /\ Position(a.with_drone) = Position(b.with_drone)
       /\ \/ a.primary_segment < b.primary_segment
          \/ /\ a.primary_segment = b.primary_segment
             /\ a.other_segment < b.other_segment

\* C7: the list is in encounter order: sorted by (position of the drone in
\* flights, primary_segment, other_segment).
C7_EncounterOrder ==
    \A m \in 1..Len(conflicts), n \in 1..Len(conflicts) :
        m < n => KeyBefore(conflicts[m], conflicts[n])

\* C7 witness: a returned list with records of two drones, of two primary
\* segments of one drone, and of two other segments of one primary segment.
C7_Witness ==
    /\ pc = "returned"
    /\ \E m \in 1..Len(conflicts), n \in 1..Len(conflicts) :
          conflicts[m].with_drone # conflicts[n].with_drone
    /\ \E m \in 1..Len(conflicts), n \in 1..Len(conflicts) :
          /\ conflicts[m].with_drone = conflicts[n].with_drone
          /\ conflicts[m].primary_segment # conflicts[n].primary_segment
    /\ \E m \in 1..Len(conflicts), n \in 1..Len(conflicts) :
          /\ conflicts[m].with_drone = conflicts[n].with_drone
          /\ conflicts[m].primary_segment = conflicts[n].primary_segment
          /\ conflicts[m].other_segment # conflicts[n].other_segment

\* The input breaks the contract: a waypoint lacks a field, a path's timestamps
\* are not strictly increasing, or the primary path has no waypoint.
StrictlyIncreasing(waypoints) ==
    \A i \in 1..(Len(waypoints) - 1) : waypoints[i].timestamp < waypoints[i + 1].timestamp
Complete(waypoints) == \A i \in 1..Len(waypoints) : waypoints[i].fields = AllFields
ContractViolated ==
    \/ PrimaryWaypoints = <<>>
    \/ ~Complete(PrimaryWaypoints) \/ ~StrictlyIncreasing(PrimaryWaypoints)
    \/ \E k \in Drones : ~Complete(OtherWaypoints(k)) \/ ~StrictlyIncreasing(OtherWaypoints(k))

\* C8: an input that breaks the contract is rejected: the run never returns a
\* list and never holds a record.
C8_RejectsViolations ==
    ContractViolated => (pc # "returned" /\ conflicts = <<>>)

\* C9: on paths with fewer than two waypoints, or an empty list of drones,
\* detect_all_conflicts does not raise (the inputs of Spec have every field, so
\* a raise can only come from an empty comparison).
C9_NeverRaises == pc # "raised"

\* What does hold of an empty comparison: a path with fewer than two waypoints
\* has no record, an empty list of drones gives an empty result, and the only
\* raise is the ValueError of min() when the primary path and a drone's path are
\* both empty, which then always happens.
EmptyComparison ==
    /\ NumSegments(PrimaryWaypoints) = 0 => conflicts = <<>>
    /\ \A k \in Drones : NumSegments(OtherWaypoints(k)) = 0 => RecordsOf(k) = {}
    /\ (flight_data.flights = <<>> /\ pc = "returned") => conflicts = <<>>
    /\ pc = "raised" =>
          /\ raised = "ValueError"
          /\ PrimaryWaypoints = <<>>
          /\ OtherWaypoints(drone_index) = <<>>
    /\ pc = "returned" =>
          ~(PrimaryWaypoints = <<>> /\ \E k \in Drones : OtherWaypoints(k) = <<>>)

\* A returned run with a one-waypoint drone, which has no record, and another
\* drone, which has one.
EmptyComparisonReached ==
    /\ pc = "returned"
    /\ \E k \in Drones : Len(OtherWaypoints(k)) = 1 /\ RecordsOf(k) = {}
    /\ conflicts # <<>>

---------------------------------------------------------------------------
(* Properties of the solver followed by the classifier (PairSpec). *)

IdenticalSegments == args[1] = args[3] /\ args[2] = args[4]

\* C12: for two identical segments with identical time ranges the solver returns
\* distance 0 and equal times, and with positive safety_threshold and
\* safety_time the pair is classified level 2.
C12_ZeroCase ==
    IdenticalSegments =>
        /\ pc \in {"solved", "classified"} =>
              /\ results.raised = FALSE
              /\ results.dist2 = Zero
              /\ results.t1 = results.t2
        /\ (pc = "classified" /\ safety_threshold > 0 /\ safety_time > 0) =>
              classified.level = 2

\* C12 witness: a segment of positive length against itself, classified level 2.
C12_Witness ==
    /\ pc = "classified"
    /\ IdenticalSegments
    /\ P1of(args) # P2of(args)
    /\ safety_threshold > 0 /\ safety_time > 0
    /\ classified.level = 2

---------------------------------------------------------------------------
(* Properties of the scenarios (ScenarioSpec). *)

\* t1 + p (t2 - t1) for a rational p.
Interpolate(t1, t2, p) == Frac(t1 * p.d + (t2 - t1) * p.n, p.d)

\* The lines through A-B and C-D meet in one point: the parameters <<s, t>> of
\* that point on A-B and on C-D (from s u - t v = w, by vector products; this
\* is not the solver's formula).
Meet(A, B, C, D) ==
    LET u == sub(B, A)
        v == sub(D, C)
        w == sub(C, A)
        n == cross(u, v)
    IN  [once |-> n # <<0, 0, 0>> /\ dot(w, n) = 0,
         s |-> Div(dot(cross(w, v), n), dot(n, n)),
         t |-> Div(dot(cross(w, u), n), dot(n, n))]

StrictlyInside(x) == FracLess(Zero, x) /\ FracLess(x, One)

\* The two single-segment paths intersect in one point interior to both.
CrossInside(pw, ow) ==
    /\ Len(pw) = 2 /\ Len(ow) = 2
    /\ Meet(pw[1].pos, pw[2].pos, ow[1].pos, ow[2].pos).once
    /\ StrictlyInside(Meet(pw[1].pos, pw[2].pos, ow[1].pos, ow[2].pos).s)
    /\ StrictlyInside(Meet(pw[1].pos, pw[2].pos, ow[1].pos, ow[2].pos).t)

\* |time of the other drone - time of the primary drone| at the crossing point.
CrossingTimeDifference(pw, ow) ==
    LET m == Meet(pw[1].pos, pw[2].pos, ow[1].pos, ow[2].pos)
    IN  FracAbs(FracSub(Interpolate(ow[1].timestamp, ow[2].timestamp, m.t),
                        Interpolate(pw[1].timestamp, pw[2].timestamp, m.s)))

\* C13: a primary path and one other path, each a single segment, that cross in
\* one interior point give exactly one record, with min_distance 0 and
\* time_difference the difference of the two drones' times at the crossing;
\* the record is SPATIOTEMPORAL when that difference is below safety_time (both
\* cross at the same time: 0) and SPATIAL otherwise (10 seconds later: 10).
C13_Crossing ==
    (/\ pc = "returned"
     /\ Len(flight_data.flights) = 1
     /\ CrossInside(PrimaryWaypoints, OtherWaypoints(1)))
    => /\ Len(conflicts) = 1
       /\ conflicts[1].min_distance = Zero
       /\ conflicts[1].location_primary = conflicts[1].location_other
       /\ conflicts[1].time_difference =
              CrossingTimeDifference(PrimaryWaypoints, OtherWaypoints(1))
       /\ conflicts[1].conflict_type =
              IF FracLess(CrossingTimeDifference(PrimaryWaypoints, OtherWaypoints(1)),
                          FromInt(safety_time))
              THEN "SPATIOTEMPORAL" ELSE "SPATIAL"
       /\ conflicts[1].time_difference = Zero =>
              conflicts[1].conflict_type = "SPATIOTEMPORAL"
       /\ conflicts[1].time_difference = FromInt(10) =>
              conflicts[1].conflict_type = "SPATIAL"

\* C13 witness: the two paths cross, the other drone 10 seconds later: one
\* SPATIAL record with time_difference 10.
C13_Witness ==
    /\ pc = "returned"
    /\ Len(flight_data.flights) = 1
    /\ CrossInside(PrimaryWaypoints, OtherWaypoints(1))
    /\ OtherWaypoints(1)[1].timestamp = PrimaryWaypoints[1].timestamp + 10
    /\ Len(conflicts) = 1
    /\ conflicts[1].conflict_type = "SPATIAL"
    /\ conflicts[1].time_difference = FromInt(10)

\* The two paths cross at the same time: one SPATIOTEMPORAL record.
CrossingAtSameTimeReached ==
    /\ pc = "returned"
    /\ Len(flight_data.flights) = 1
    /\ CrossInside(PrimaryWaypoints, OtherWaypoints(1))
    /\ OtherWaypoints(1)[1].timestamp = PrimaryWaypoints[1].timestamp
    /\ Len(conflicts) = 1
    /\ conflicts[1].conflict_type = "SPATIOTEMPORAL"
    /\ conflicts[1].time_difference = Zero

\* The point of segment A-B nearest to X.
Nearest(A, B, X) ==
    LET AB == sub(B, A)
        c == dot(AB, AB)
        e == dot(sub(X, A), AB)
    IN  IF c = 0 \/ e <= 0 THEN IntPoint(A)
        ELSE IF e >= c THEN IntPoint(B)
        ELSE add_scale(A, AB, Frac(e, c))

FracMin(S) == CHOOSE m \in S : \A x \in S : FracLeq(m, x)

\* The square of the minimum distance of segments A-B and C-D.  The minimum is
\* taken at the two lines' points of closest approach when the lines are not
\* parallel and those points are on the segments, and else at an end point of
\* one segment and the point of the other segment nearest to it.
TrueMin2(A, B, C, D) ==
    LET u == sub(B, A)
        v == sub(D, C)
        w == sub(C, A)
        n == cross(u, v)
        s == Div(dot(cross(w, v), n), dot(n, n))
        t == Div(dot(cross(w, u), n), dot(n, n))
    IN  IF n # <<0, 0, 0>> /\ FracLeq(Zero, s) /\ FracLeq(s, One)
                            /\ FracLeq(Zero, t) /\ FracLeq(t, One)
        THEN norm2(add_scale(A, u, s), add_scale(C, v, t))
        ELSE FracMin({norm2(IntPoint(A), Nearest(C, D, A)),
                      norm2(IntPoint(B), Nearest(C, D, B)),
                      norm2(Nearest(A, B, C), IntPoint(C)),
                      norm2(Nearest(A, B, D), IntPoint(D))})

\* The closest approach of the primary path and drone k's path is at least the
\* threshold.
KeepsClear(k) ==
    \A i \in 1..NumSegments(PrimaryWaypoints), j \in 1..NumSegments(OtherWaypoints(k)) :
        LET m == TrueMin2(PrimaryWaypoints[i].pos, PrimaryWaypoints[i + 1].pos,
                          OtherWaypoints(k)[j].pos, OtherWaypoints(k)[j + 1].pos)
        IN  m.n >= safety_threshold * safety_threshold * m.d

\* C14: if the closest approach of the primary path and every other path is at
\* least safety_threshold, the returned list is empty.
C14_NoFalseAlarm ==
    (pc = "returned" /\ \A k \in Drones : KeepsClear(k)) => conflicts = <<>>

\* Two segments of positive length, parallel, with minimum distance exactly m.
ParallelAt(pw, ow, m) ==
    /\ pw[1].pos # pw[2].pos /\ ow[1].pos # ow[2].pos
    /\ cross(sub(pw[2].pos, pw[1].pos), sub(ow[2].pos, ow[1].pos)) = <<0, 0, 0>>
    /\ TrueMin2(pw[1].pos, pw[2].pos, ow[1].pos, ow[2].pos) = FromInt(m * m)

\* C14 witness: two parallel paths offset by exactly safety_threshold (15 m) and
\* an empty returned list.
C14_Witness ==
    /\ pc = "returned"
    /\ Len(flight_data.flights) = 1
    /\ ParallelAt(PrimaryWaypoints, OtherWaypoints(1), safety_threshold)
    /\ conflicts = <<>>

\* Two parallel paths 50 m apart and an empty returned list.
FarApartReached ==
    /\ pc = "returned"
    /\ Len(flight_data.flights) = 1
    /\ ParallelAt(PrimaryWaypoints, OtherWaypoints(1), 50)
    /\ conflicts = <<>>

---------------------------------------------------------------------------
(* Further properties of the run (Spec). *)

\* What detect_all_conflicts returns for the primary path and drone k alone.
AloneWith(k) ==
    check_spatial_conflicts(PrimaryWaypoints, OtherWaypoints(k), Fleet[k]).conflicts

RECURSIVE InOrder(_)
InOrder(k) == IF k = 0 THEN <<>> ELSE InOrder(k - 1) \o AloneWith(k)

\* C15: the list returned for the drones d1..dn is the concatenation, in their
\* order, of the lists returned for each drone alone; the records of a drone
\* depend on nothing but the primary path and that drone.
C15_Independent ==
    pc = "returned" => conflicts = InOrder(Len(flight_data.flights))

\* C15 witness: a returned run with two drones on different paths, each with a
\* record, the primary path starting after them (the earliest timestamp is a
\* drone's).
C15_Witness ==
    /\ pc = "returned"
    /\ Len(flight_data.flights) = 2
    /\ OtherWaypoints(1) # OtherWaypoints(2)
    /\ RecordsOf(1) # {} /\ RecordsOf(2) # {}
    /\ PrimaryWaypoints[1].timestamp > OtherWaypoints(1)[1].timestamp

---------------------------------------------------------------------------
(* Properties of the sampling strategy (SamplingSpec). *)

\* The gap in seconds between the two flight-time windows (0 when they overlap).
WindowGap(pw, ow) ==
    IF pw[Len(pw)].timestamp < ow[1].timestamp
    THEN ow[1].timestamp - pw[Len(pw)].timestamp
    ELSE IF ow[Len(ow)].timestamp < pw[1].timestamp
    THEN pw[1].timestamp - ow[Len(ow)].timestamp
    ELSE 0

\* C16: Method 1's check_spatial_conflicts returns the list that the same
\* procedure returns without the temporal-relevance pre-filter.
C16_PreFilterNeutral ==
    (pc = "sampled" /\ raised = "none") =>
        conflicts = SampledConflicts(PrimaryWaypoints, OtherWaypoints(1), Fleet[1])

\* C16 witness: the windows are more than 5 seconds apart, both drones fly
\* through both sites, and the pre-filter returned [].
C16_Witness ==
    /\ pc = "sampled"
    /\ raised = "none"
    /\ Len(PrimaryWaypoints) >= 2 /\ Len(OtherWaypoints(1)) >= 2
    /\ WindowGap(PrimaryWaypoints, OtherWaypoints(1)) > 5
    /\ \A site \in Sites :
          /\ \E i \in 1..Len(PrimaryWaypoints) : PrimaryWaypoints[i].pos = site
          /\ \E i \in 1..Len(OtherWaypoints(1)) : OtherWaypoints(1)[i].pos = site
    /\ conflicts = <<>>

\* Windows 1 second apart, not filtered, and a conflict between the last
\* sample of one path and the first sample of the other.
NearWindowsConflictReached ==
    /\ pc = "sampled"
    /\ raised = "none"
    /\ WindowGap(PrimaryWaypoints, OtherWaypoints(1)) = 1
    /\ conflicts # <<>>

---------------------------------------------------------------------------
(* Properties of the records (Spec, ScenarioSpec). *)

\* A record is fully and consistently populated.  (Its two timestamps are the
\* two times rounded to the microsecond, so their difference is within one
\* microsecond of time_difference.)
Populated(c) ==
    /\ c.with_drone \in {Fleet[k] : k \in 1..Len(Fleet)}
    /\ BelowThreshold(c.min_distance, safety_threshold)
    /\ c.location_primary.den > 0 /\ c.location_other.den > 0
    /\ c.min_distance = norm2(c.location_primary, c.location_other)
    /\ c.timestamp_primary \in Int /\ c.timestamp_other \in Int
    /\ FracLeq(Zero, c.time_difference)
    /\ Abs(Abs(c.timestamp_other - c.timestamp_primary) * c.time_difference.d
             - c.time_difference.n * Micro) <= c.time_difference.d
    /\ c.conflict_type \in {"SPATIAL", "SPATIOTEMPORAL"}
    /\ (c.conflict_type = "SPATIOTEMPORAL") <=>
          FracLess(c.time_difference, FromInt(safety_time))
    /\ c.spatial_conflict = TRUE
    /\ c.temporal_conflict = (c.conflict_type = "SPATIOTEMPORAL")

\* C20: every record of the list is fully and consistently populated:
\* min_distance below the threshold, time_difference the difference of the two
\* times, SPATIOTEMPORAL exactly when time_difference < safety_time and SPATIAL
\* otherwise, spatial_conflict true, temporal_conflict true exactly for
\* SPATIOTEMPORAL, locations and timestamps present.
C20_Populated ==
    \A n \in 1..Len(conflicts) : Populated(conflicts[n])

\* C20 witness: a returned list with a SPATIOTEMPORAL record and a SPATIAL record
\* whose time_difference equals safety_time.
C20_Witness ==
    /\ pc = "returned"
    /\ \E n \in 1..Len(conflicts) : conflicts[n].conflict_type = "SPATIOTEMPORAL"
    /\ \E n \in 1..Len(conflicts) :
          /\ conflicts[n].conflict_type = "SPATIAL"
          /\ conflicts[n].time_difference = FromInt(safety_time)
          /\ Populated(conflicts[n])

---------------------------------------------------------------------------
(* Further properties of the solver (SolverSpec). *)

\* D = b^2 - a c of the two segments of args: not 0 exactly when both segments
\* have positive length and are not parallel.
Denominator(a) ==
    LET u == sub(P2of(a), P1of(a))
        v == sub(Q2of(a), Q1of(a))
    IN  dot(u, v) * dot(u, v) - dot(u, u) * dot(v, v)

\* X - Y for two rational points, times the (positive) product of their
\* denominators.
Difference(X, Y) ==
    <<X.num[1] * Y.den - Y.num[1] * X.den,
      X.num[2] * Y.den - Y.num[2] * X.den,
      X.num[3] * Y.den - Y.num[3] * X.den>>

\* No move of X along its segment A-B brings it closer to Y (first-order
\* condition: with r = X - Y, r.(B - A) is 0 inside the segment, >= 0 at A,
\* <= 0 at B).
NoCloserAlong(X, A, B, Y) ==
    LET g == dot(Difference(X, Y), sub(B, A))
    IN  /\ (X # IntPoint(A) /\ X # IntPoint(B)) => g = 0
        /\ (X = IntPoint(A)) => g >= 0
        /\ (X = IntPoint(B)) => g <= 0

\* The returned pair of points is a pair of closest points of the two segments:
\* both lie on their segments and neither can move closer to the other (the
\* squared distance is convex in the two parameters, so this is the minimum).
ClosestPair(r, a) ==
    /\ OnSegment(r.closest_P, P1of(a), P2of(a))
    /\ OnSegment(r.closest_Q, Q1of(a), Q2of(a))
    /\ NoCloserAlong(r.closest_P, P1of(a), P2of(a), r.closest_Q)
    /\ NoCloserAlong(r.closest_Q, Q1of(a), Q2of(a), r.closest_P)

\* C17: for segments that are neither parallel nor degenerate (D # 0) the
\* returned distance is the minimum distance of the two segments, in the
\* direct branch and in the end-point fallback.
C17_NonParallelMinimum ==
    (pc = "solved" /\ Denominator(args) # 0) =>
        /\ results.raised = FALSE
        /\ ClosestPair(results, args)
        /\ results.dist2 = norm2(results.closest_P, results.closest_Q)
        /\ results.dist2 = TrueMin2(P1of(args), P2of(args), Q1of(args), Q2of(args))

\* C17 witness: non-parallel segments whose lines' closest points lie outside
\* the segments; the fallback returned an end point of P and a point strictly
\* inside Q, at a positive distance.
C17_Witness ==
    /\ pc = "solved"
    /\ Denominator(args) # 0
    /\ results.raised = FALSE
    /\ results.branch = "fallback"
    /\ results.closest_Q.den > 1
    /\ FracLess(Zero, results.dist2)
    /\ ClosestPair(results, args)

\* Non-parallel segments at a positive distance, answered by the direct branch.
DirectBranchReached ==
    /\ pc = "solved"
    /\ Denominator(args) # 0
    /\ results.raised = FALSE
    /\ results.branch = "direct"
    /\ FracLess(Zero, results.dist2)

\* The parameter p with time = t_start + p (t_end - t_start), for a segment
\* whose time range has positive length.
ParameterAt(time, t_start, t_end) ==
    Frac(time.n - t_start * time.d, (t_end - t_start) * time.d)

\* The returned time is the interpolation of the segment's time range at a
\* parameter p in [0,1] that generates the returned point X on segment A-B.
TimeOfPoint(time, X, A, B) ==
    LET p == ParameterAt(time, A[4], B[4])
    IN  /\ FracLeq(Zero, p) /\ FracLeq(p, One)
        /\ FracLeq(FromInt(A[4]), time) /\ FracLeq(time, FromInt(B[4]))
        /\ X = add_scale(<<A[1], A[2], A[3]>>,
                         sub(<<B[1], B[2], B[3]>>, <<A[1], A[2], A[3]>>), p)

\* C18: each returned time is the linear interpolation of its segment's own
\* time range at the parameter of the returned point, and lies in that range.
C18_TimesOfPoints ==
    pc = "solved" =>
        /\ results.raised = FALSE
        /\ TimeOfPoint(results.t1, results.closest_P, args[1], args[2])
        /\ TimeOfPoint(results.t2, results.closest_Q, args[3], args[4])

\* C18 witness: the fallback returned an end point of one segment and a point
\* strictly inside the other, so the two parameters differ and one time is
\* strictly inside its range.
C18_Witness ==
    /\ pc = "solved"
    /\ results.raised = FALSE
    /\ results.branch = "fallback"
    /\ P1of(args) # P2of(args)
    /\ results.closest_Q.den > 1
    /\ StrictlyInside(ParameterAt(results.t2, args[3][4], args[4][4]))
    /\ ParameterAt(results.t1, args[1][4], args[2][4]) \in {Zero, One}
    /\ TimeOfPoint(results.t2, results.closest_Q, args[3], args[4])

\* The four end-point candidates of args and their squared distances.
CandidatesOf(a) == Candidates(P1of(a), P2of(a), Q1of(a), Q2of(a))
CandidateDists(cands) == [k \in 1..4 |-> norm2(cands[k].P, cands[k].Q)]

\* The first candidate, in the order P1-vs-Q, P2-vs-Q, Q1-vs-P, Q2-vs-P, among
\* those at the minimum distance.
FirstClosest(dists) ==
    CHOOSE k \in 1..4 :
        /\ \A j \in 1..4 : FracLeq(dists[k], dists[j])
        /\ \A j \in 1..(k - 1) : FracLess(dists[k], dists[j])

---------------------------------------------------------------------------
(* The reporting cooldown of the sampling strategy (SamplingSpec). *)

\* Each waypoint of the path is later than the one before it.
IncreasingTimestamps(w) ==
    \A i \in 1..(Len(w) - 1) : w[i].timestamp < w[i + 1].timestamp

\* Primary sample k is within the safety radius: some other sample at most one
\* second away in time is closer to it than drone_radius.
WithinRadius(ps, os, k) ==
    /\ drone_radius > 0
    /\ \E m \in 1..Len(os) :
          /\ Abs(ps[k].time - os[m].time) <= 1
          /\ FracLess(norm2(ps[k].pos, os[m].pos),
                      FromInt(drone_radius * drone_radius))

\* Primary sample k is the one a returned record reports: the first sample of
\* its time, and a record carries that time.
ReportedAt(ps, k) ==
    /\ \E n \in 1..Len(conflicts) :
          conflicts[n].timestamp_primary = ps[k].time * Micro
    /\ \A j \in 1..(k - 1) : ps[j].time # ps[k].time

\* The times of the samples reported before sample k.
ReportedBefore(ps, k) == {ps[j].time : j \in {i \in 1..(k - 1) : ReportedAt(ps, i)}}

\* Fewer than 2 seconds have passed at sample k since the last reported record.
TooSoon(ps, k) ==
    \E last \in ReportedBefore(ps, k) :
       /\ \A t \in ReportedBefore(ps, k) : t <= last
       /\ ps[k].time - last < 2

\* C21: for paths with increasing timestamps, two consecutive records of
\* Method 1's check_spatial_conflicts are SPATIAL records whose primary
\* timestamps lie at least 2 seconds apart, every record reports a sample
\* within the safety radius, and a sample within the safety radius goes
\* unreported exactly when fewer than 2 seconds have passed since the last
\* reported record.
C21_Cooldown ==
    (/\ pc = "sampled"
     /\ raised = "none"
     /\ IncreasingTimestamps(PrimaryWaypoints)
     /\ IncreasingTimestamps(OtherWaypoints(1))) =>
        LET ps == sample_path_positions(PrimaryWaypoints, 1)
            os == sample_path_positions(OtherWaypoints(1), 1)
        IN  /\ \A n \in 1..(Len(conflicts) - 1) :
                  /\ conflicts[n].conflict_type = "SPATIAL"
                  /\ conflicts[n + 1].conflict_type = "SPATIAL"
                  /\ conflicts[n + 1].timestamp_primary
                        - conflicts[n].timestamp_primary >= 2 * Micro
            /\ \A n \in 1..Len(conflicts) :
                  \E k \in 1..Len(ps) :
                     /\ WithinRadius(ps, os, k)
                     /\ conflicts[n].timestamp_primary = ps[k].time * Micro
            /\ \A k \in 1..Len(ps) :
                  /\ ReportedAt(ps, k) => WithinRadius(ps, os, k)
                  /\ WithinRadius(ps, os, k) =>
                        (~ReportedAt(ps, k) <=> TooSoon(ps, k))

\* C21 witness: three records were returned, and between two of them a sample
\* within the safety radius, one second after the earlier record, went
\* unreported.
C21_Witness ==
    /\ pc = "sampled"
    /\ raised = "none"
    /\ IncreasingTimestamps(PrimaryWaypoints)
    /\ IncreasingTimestamps(OtherWaypoints(1))
    /\ Len(conflicts) = 3
    /\ LET ps == sample_path_positions(PrimaryWaypoints, 1)
           os == sample_path_positions(OtherWaypoints(1), 1)
       IN  \E k \in 1..Len(ps) :
              /\ WithinRadius(ps, os, k)
              /\ ~ReportedAt(ps, k)
              /\ ps[k].time * Micro = conflicts[1].timestamp_primary + Micro
              /\ conflicts[2].timestamp_primary = ps[k].time * Micro + Micro

\* A sample within the safety radius is reported although the sample one second
\* before it was out of the radius and unreported (no cooldown running).
ReportedAfterClearSample ==
    /\ pc = "sampled"
    /\ raised = "none"
    /\ LET ps == sample_path_positions(PrimaryWaypoints, 1)
           os == sample_path_positions(OtherWaypoints(1), 1)
       IN  \E k \in 2..Len(ps) :
              /\ ReportedAt(ps, k)
              /\ ~WithinRadius(ps, os, k - 1)

---------------------------------------------------------------------------
(* The frame of detect_all_conflicts (Spec). *)

\* A step of a call of detect_all_conflicts: the loop body, the return, or the
\* start of the next call.
InDetectAllConflicts == pc \in {"detect", "returned"}

\* C22: no step of detect_all_conflicts changes its inputs: the primary path's
\* waypoint list, every other drone's waypoint list and drone_id, and the
\* analyzer's drone_radius, safety_threshold and safety_time are after the
\* step what they were before it.
C22_InputsUnchanged ==
    [][InDetectAllConflicts =>
          /\ primary_path' = primary_path
          /\ flight_data' = flight_data
          /\ drone_radius' = drone_radius
          /\ safety_threshold' = safety_threshold
          /\ safety_time' = safety_time]_vars

\* C22 witness: detect_all_conflicts returned twice on a primary path of two
\* segments and two drones with different paths, with records for both drones.
C22_Witness ==
    /\ pc = "returned"
    /\ previous # <<>>
    /\ Len(PrimaryWaypoints) = 3
    /\ Len(flight_data.flights) = 2
    /\ OtherWaypoints(1) # OtherWaypoints(2)
    /\ RecordsOf(1) # {} /\ RecordsOf(2) # {}

\* A call that raised ended with its inputs in place.
RaisedCallReached ==
    /\ pc = "raised"
    /\ raised # "none"
    /\ flight_data.flights # <<>>

===========================================================================
